---- MODULE Spec2Model ----
(***************************************************************************)
(* Model of fchashmap: a fixed capacity hash map using Robin Hood hashing  *)
(* with backward shift deletion (src/src/map.rs, src/src/lib.rs).          *)
(*                                                                         *)
(* The map is the pair (buckets, hash_table).  Every public call is one    *)
(* atomic action; the loops of insert, find and remove_found are recursive *)
(* operators that follow the code statement by statement.                  *)
(***************************************************************************)
EXTENDS Integers, Sequences, FiniteSets, TLC

VARIABLES buckets, hash_table, last, std_hashmap, first_inserted

vars == <<buckets, hash_table, last, std_hashmap, first_inserted>>

----------------------------------------------------------------------------
(* Bounds of the model *)

\* log2 of the const generic CAP (CAP is a power of two, map.rs:135)
CapBits == 2
\* number of distinct keys the callers use
NumKeys == 5
\* number of distinct values the callers use
NumVals == 2
\* longest iterable handed to extend / from_iter
MaxExtend == 2

Keys == 1..NumKeys
Vals == 1..NumVals

\* Option<T>
None == <<>>
Some(x) == <<x>>

----------------------------------------------------------------------------
(* Bit arithmetic on non-negative integers *)

RECURSIVE BitAnd(_, _)
BitAnd(a, b) ==
  IF a = 0 \/ b = 0 THEN 0
  ELSE (a % 2) * (b % 2) + 2 * BitAnd(a \div 2, b \div 2)

RECURSIVE count_ones(_)
count_ones(a) == IF a = 0 THEN 0 ELSE (a % 2) + count_ones(a \div 2)

\* usize::wrapping_sub, low 16 bits of the result.  Every use is followed by
\* `& mask` with mask < 2^15, which clears all higher bits.
wrapping_sub(a, b) == (a - b) % 65536

----------------------------------------------------------------------------
(* Hash engine, standard configuration (map.rs:65-114) *)

HASH_VALUE_IS_EMPTY == 32768

\* HashValue::new: 15 bit hash value from the u32 hash
HashValue_new(hash) == BitAnd(hash, 32767)

desired_h_idx(hv, msk) == BitAnd(hv, msk)

\* mutant: the distance without the wrap around the end of the table
h_idx_distance_nowrap(hv, msk, current_h_idx) ==
  IF current_h_idx >= desired_h_idx(hv, msk)
  THEN current_h_idx - desired_h_idx(hv, msk) ELSE 0

\* mutant: the difference is not masked
h_idx_distance_unmasked(hv, msk, current_h_idx) ==
  wrapping_sub(current_h_idx, desired_h_idx(hv, msk))

h_idx_distance(hv, msk, current_h_idx) ==
  BitAnd(wrapping_sub(current_h_idx, desired_h_idx(hv, msk)), msk)

\* mutant: the index is stored in a field of one bit
HashIndex_new_narrow(hv, b_idx) == [hash |-> hv, b_idx |-> b_idx % 2]

\* HashIndex::new: `b_idx as u16`
HashIndex_new(hv, b_idx) == [hash |-> hv, b_idx |-> b_idx % 65536]

HashIndex_clear(hi) == [hi EXCEPT !.hash = HASH_VALUE_IS_EMPTY]

is_empty(hi) == hi.hash = HASH_VALUE_IS_EMPTY

capacity == 2 ^ CapBits

mask == capacity - 1

\* The 32 bit hashes h.finish32() of the keys.  The hasher is an external
\* crate; it is a fixed function of the key.  The table has keys with equal
\* truncated hash (1 and 2; 4 and 8), keys with equal ideal slot but different
\* truncated hash, a hash equal to the sentinel pattern (4), and ideal slots
\* at the end of the table so that probe runs wrap.
Finish32Table == <<3, 32771, 7, 32768, 4, 65541, 6, 0>>

finish32(key) == Finish32Table[((key - 1) % Len(Finish32Table)) + 1]

hash_with(key) == HashValue_new(finish32(key))

----------------------------------------------------------------------------
(* Outcomes of an out-of-bounds get_unchecked (undefined behaviour): the   *)
(* debug build stops at the debug_assert, the release build reads a stale  *)
(* bucket whose key compares equal or not equal.                           *)
OobOutcomes == {"panic", "eq", "ne"}

\* bound on loop iterations; a loop that reaches it never returns ("hang")
LoopLimit == 2 * capacity + 2

\* Map::new
Map_new ==
  [buckets |-> <<>>,
   hash_table |-> [i \in 0..(capacity - 1) |->
                     [hash |-> HASH_VALUE_IS_EMPTY, b_idx |-> 0]]]

\* mutant: every stored key compares equal, a match is decided by the hash
KeyEq_always(b, b_idx, key, oob) == TRUE

\* mutant: no stored key compares equal
KeyEq_never(b, b_idx, key, oob) == FALSE

\* self.buckets.get_unchecked(b_idx).key == key
KeyEq(b, b_idx, key, oob) ==
  IF b_idx < Len(b) THEN b[b_idx + 1].key = key ELSE oob = "eq"

----------------------------------------------------------------------------
(* Map::find (map.rs:236-270) *)

FindResult(found, h_idx, b_idx, status, ub, probe) ==
  [found |-> found, h_idx |-> h_idx, b_idx |-> b_idx, status |-> status,
   ub |-> ub, probe |-> probe]

\* mutant: find without the give-up test after a full table scan
RECURSIVE find_probe_no_giveup(_, _, _, _, _, _, _, _, _)
find_probe_no_giveup(b, ht, key, hash, h_idx, h_idx_dist, n, fuel, oob) ==
  IF fuel = 0 THEN FindResult(FALSE, 0, 0, "hang", FALSE, n)
  ELSE
  LET hash_index == ht[h_idx] IN
  IF is_empty(hash_index)
  THEN FindResult(FALSE, 0, 0, "ok", FALSE, n + 1)
  ELSE
  LET b_idx == hash_index.b_idx IN
  IF b_idx >= Len(b) /\ oob = "panic"
  THEN FindResult(FALSE, 0, 0, "panic", TRUE, n + 1)
  ELSE IF hash = hash_index.hash /\ KeyEq(b, b_idx, key, oob)
  THEN FindResult(TRUE, h_idx, b_idx, "ok", b_idx >= Len(b), n + 1)
  ELSE find_probe_no_giveup(b, ht, key, hash, BitAnd(h_idx + 1, mask),
                            h_idx_dist + 1, n + 1, fuel - 1, oob)

RECURSIVE find_probe(_, _, _, _, _, _, _, _, _)
find_probe(b, ht, key, hash, h_idx, h_idx_dist, n, fuel, oob) ==
  IF fuel = 0 THEN FindResult(FALSE, 0, 0, "hang", FALSE, n)
  ELSE
  LET hash_index == ht[h_idx] IN
  IF is_empty(hash_index)
  THEN FindResult(FALSE, 0, 0, "ok", FALSE, n + 1)
  ELSE
  LET b_idx == hash_index.b_idx IN
  IF b_idx >= Len(b) /\ oob = "panic"
  THEN \* debug_assert!(b_idx < self.buckets.len())
       FindResult(FALSE, 0, 0, "panic", TRUE, n + 1)
  ELSE IF h_idx_dist > h_idx_distance(hash, mask, h_idx)
  THEN \* give up after full table scan (wrap around)
       FindResult(FALSE, 0, 0, "ok", FALSE, n + 1)
  ELSE IF hash = hash_index.hash /\ KeyEq(b, b_idx, key, oob)
  THEN FindResult(TRUE, h_idx, b_idx, "ok", b_idx >= Len(b), n + 1)
  ELSE
  LET r == find_probe(b, ht, key, hash, BitAnd(h_idx + 1, mask),
                      h_idx_dist + 1, n + 1, fuel - 1, oob)
  IN IF hash = hash_index.hash /\ b_idx >= Len(b)
     THEN [r EXCEPT !.ub = TRUE] ELSE r

find(b, ht, key, oob) ==
  IF Len(b) = 0
  THEN FindResult(FALSE, 0, 0, "ok", FALSE, 0)
  ELSE LET hash == hash_with(key) IN
       find_probe(b, ht, key, hash, desired_h_idx(hash, mask), 0, 0,
                  LoopLimit, oob)

----------------------------------------------------------------------------
(* Map::remove_found (map.rs:273-318) *)

\* mutant: the element is removed and the later ones move down
shift_pop(b, index) ==
  [j \in 1..(Len(b) - 1) |-> IF j < index + 1 THEN b[j] ELSE b[j + 1]]

\* ArrayVec::swap_pop(index) for index < len: the last element takes the
\* place of the removed one
swap_pop(b, index) ==
  [j \in 1..(Len(b) - 1) |-> IF j = index + 1 THEN b[Len(b)] ELSE b[j]]

\* Index correction (map.rs:284-291): from h_idx forward, the first slot
\* whose b_idx is >= len is overwritten.  The test does not look at the hash
\* of the slot.
\* mutant: the slot of the relocated entry is not corrected
repoint_scan_none(ht, h_idx, len, hash_index, n, fuel) ==
  [hash_table |-> ht, steps |-> n, status |-> "ok"]

\* mutant: the ideal slot of the relocated entry is overwritten, no scan
repoint_scan_ideal(ht, h_idx, len, hash_index, n, fuel) ==
  [hash_table |-> [ht EXCEPT ![h_idx] = hash_index], steps |-> n + 1,
   status |-> "ok"]

RECURSIVE repoint_scan(_, _, _, _, _, _)
repoint_scan(ht, h_idx, len, hash_index, n, fuel) ==
  IF fuel = 0 THEN [hash_table |-> ht, steps |-> n, status |-> "hang"]
  ELSE IF ht[h_idx].b_idx >= len
  THEN [hash_table |-> [ht EXCEPT ![h_idx] = hash_index],
        steps |-> n + 1, status |-> "ok"]
  ELSE repoint_scan(ht, BitAnd(h_idx + 1, mask), len, hash_index, n + 1,
                    fuel - 1)

\* Backward shift deletion (map.rs:296-316), h_idx is the gap
\* mutant: the gap is left where it is
backward_shift_none(ht, h_idx, n, fuel) ==
  [hash_table |-> ht, steps |-> n, status |-> "ok"]

\* mutant: the shift goes on over slots that are at their ideal position
RECURSIVE backward_shift_greedy(_, _, _, _)
backward_shift_greedy(ht, h_idx, n, fuel) ==
  IF fuel = 0 THEN [hash_table |-> ht, steps |-> n, status |-> "ok"]
  ELSE
  LET next_h_idx == BitAnd(h_idx + 1, mask)
      hash_index == ht[next_h_idx]
  IN
  IF is_empty(hash_index)
  THEN [hash_table |-> ht, steps |-> n + 1, status |-> "ok"]
  ELSE backward_shift_greedy([ht EXCEPT ![h_idx] = hash_index,
                                        ![next_h_idx] = HashIndex_clear(hash_index)],
                             next_h_idx, n + 1, fuel - 1)

\* mutant: only the slot after the gap is shifted
backward_shift_once(ht, h_idx, n, fuel) ==
  LET next_h_idx == BitAnd(h_idx + 1, mask)
      hash_index == ht[next_h_idx]
  IN
  IF ~is_empty(hash_index) /\ h_idx_distance(hash_index.hash, mask, next_h_idx) > 0
  THEN [hash_table |-> [ht EXCEPT ![h_idx] = hash_index,
                                  ![next_h_idx] = HashIndex_clear(hash_index)],
        steps |-> n + 1, status |-> "ok"]
  ELSE [hash_table |-> ht, steps |-> n + 1, status |-> "ok"]

RECURSIVE backward_shift(_, _, _, _)
backward_shift(ht, h_idx, n, fuel) ==
  IF fuel = 0 THEN [hash_table |-> ht, steps |-> n, status |-> "hang"]
  ELSE
  LET last_h_idx == h_idx
      next_h_idx == BitAnd(h_idx + 1, mask)
      hash_index == ht[next_h_idx]
  IN
  IF is_empty(hash_index)
  THEN [hash_table |-> ht, steps |-> n + 1, status |-> "ok"]
  ELSE IF h_idx_distance(hash_index.hash, mask, next_h_idx) > 0
  THEN backward_shift([ht EXCEPT ![last_h_idx] = hash_index,
                                 ![next_h_idx] = HashIndex_clear(hash_index)],
                      next_h_idx, n + 1, fuel - 1)
  ELSE [hash_table |-> ht, steps |-> n + 1, status |-> "ok"]

RemoveResult(b, ht, ret, status, ub, probe, repoint, bshift) ==
  [buckets |-> b, hash_table |-> ht, ret |-> ret, status |-> status,
   ub |-> ub, probe |-> probe, repoint |-> repoint, bshift |-> bshift]

\* mutant: the slot is cleared and the entry removed, the gap is not closed
remove_found_keep_gap(b, ht, found_h_idx, found_b_idx) ==
  LET ht1 == [ht EXCEPT ![found_h_idx] = HashIndex_clear(@)]
      rp == IF found_b_idx < Len(b) - 1
            THEN LET bucket == b[Len(b)] IN
                 repoint_scan(ht1, desired_h_idx(bucket.hash, mask), Len(b) - 1,
                              HashIndex_new(bucket.hash, found_b_idx), 0,
                              LoopLimit)
            ELSE [hash_table |-> ht1, steps |-> 0, status |-> "ok"]
  IN RemoveResult(swap_pop(b, found_b_idx), rp.hash_table,
                  Some(b[found_b_idx + 1].value), "ok", FALSE, 0, rp.steps, 0)

remove_found(b, ht, found_h_idx, found_b_idx) ==
  LET ht1 == [ht EXCEPT ![found_h_idx] = HashIndex_clear(@)] IN
  IF found_b_idx >= Len(b)
  THEN \* swap_pop returns None, unwrap panics
       RemoveResult(b, ht1, None, "panic", FALSE, 0, 0, 0)
  ELSE
  LET deleted_bucket == b[found_b_idx + 1]
      b1 == swap_pop(b, found_b_idx)
      rp == IF found_b_idx < Len(b1)
            THEN LET bucket == b1[found_b_idx + 1] IN
                 repoint_scan(ht1, desired_h_idx(bucket.hash, mask), Len(b1),
                              HashIndex_new(bucket.hash, found_b_idx), 0,
                              LoopLimit)
            ELSE [hash_table |-> ht1, steps |-> 0, status |-> "ok"]
  IN
  IF rp.status # "ok"
  THEN RemoveResult(b1, rp.hash_table, None, rp.status, FALSE, 0, rp.steps, 0)
  ELSE
  LET bs == backward_shift(rp.hash_table, found_h_idx, 0, LoopLimit) IN
  RemoveResult(b1, bs.hash_table,
               IF bs.status = "ok" THEN Some(deleted_bucket.value) ELSE None,
               bs.status, FALSE, 0, rp.steps, bs.steps)

\* Map::remove (map.rs:353-360)
remove(b, ht, key, oob) ==
  LET f == find(b, ht, key, oob) IN
  IF f.status # "ok"
  THEN RemoveResult(b, ht, None, f.status, f.ub, f.probe, 0, 0)
  ELSE IF f.found
  THEN LET r == remove_found(b, ht, f.h_idx, f.b_idx) IN
       [r EXCEPT !.ub = f.ub, !.probe = f.probe]
  ELSE RemoveResult(b, ht, None, "ok", f.ub, f.probe, 0, 0)

----------------------------------------------------------------------------
(* Map::insert (map.rs:168-233) *)

\* result of a call on the map
Result(b, ht, ret, status, ub, probe, shift) ==
  [buckets |-> b, hash_table |-> ht, ret |-> ret, status |-> status,
   ub |-> ub, probe |-> probe, shift |-> shift]

\* Case 2, the inner loop (map.rs:201-216): the carried hash_index is stored
\* at h_idx and the previous occupant is carried on, up to the first empty
\* slot.  `n` counts the slots visited so far.
\* mutant: the carried hash_index is stored and the occupant is dropped
insert_shift_drop(ht, h_idx, hash_index, n, fuel) ==
  [hash_table |-> [ht EXCEPT ![h_idx] = hash_index], shift |-> n + 1,
   status |-> "ok"]

\* mutant: the carried hash_index displaces an occupant only if the occupant
\* is nearer to its ideal slot than the carried one would be in this slot
RECURSIVE insert_shift_if_richer(_, _, _, _, _)
insert_shift_if_richer(ht, h_idx, hash_index, n, fuel) ==
  IF fuel = 0 THEN [hash_table |-> ht, shift |-> n, status |-> "hang"]
  ELSE IF is_empty(ht[h_idx])
  THEN [hash_table |-> [ht EXCEPT ![h_idx] = hash_index],
        shift |-> n + 1, status |-> "ok"]
  ELSE IF h_idx_distance(ht[h_idx].hash, mask, h_idx)
            < h_idx_distance(hash_index.hash, mask, h_idx)
  THEN insert_shift_if_richer([ht EXCEPT ![h_idx] = hash_index],
                              BitAnd(h_idx + 1, mask), ht[h_idx], n + 1,
                              fuel - 1)
  ELSE insert_shift_if_richer(ht, BitAnd(h_idx + 1, mask), hash_index, n + 1,
                              fuel - 1)

RECURSIVE insert_shift(_, _, _, _, _)
insert_shift(ht, h_idx, hash_index, n, fuel) ==
  IF fuel = 0 THEN [hash_table |-> ht, shift |-> n, status |-> "hang"]
  ELSE IF is_empty(ht[h_idx])
  THEN [hash_table |-> [ht EXCEPT ![h_idx] = hash_index],
        shift |-> n + 1, status |-> "ok"]
  ELSE insert_shift([ht EXCEPT ![h_idx] = hash_index],
                    BitAnd(h_idx + 1, mask), ht[h_idx], n + 1, fuel - 1)

\* mutant: linear probing, no slot is ever stolen
RECURSIVE insert_probe_nosteal(_, _, _, _, _, _, _, _, _, _)
insert_probe_nosteal(b, ht, key, value, hash, h_idx, h_idx_dist, n, fuel, oob) ==
  IF fuel = 0 THEN Result(b, ht, None, "hang", FALSE, n, 0)
  ELSE IF is_empty(ht[h_idx])
  THEN Result(Append(b, [key |-> key, value |-> value, hash |-> hash]),
              [ht EXCEPT ![h_idx] = HashIndex_new(hash, Len(b))],
              <<"Ok", None>>, "ok", FALSE, n + 1, 0)
  ELSE IF ht[h_idx].hash = hash /\ KeyEq(b, ht[h_idx].b_idx, key, oob)
  THEN Result([b EXCEPT ![ht[h_idx].b_idx + 1].value = value], ht,
              <<"Ok", Some(b[ht[h_idx].b_idx + 1].value)>>, "ok", FALSE,
              n + 1, 0)
  ELSE insert_probe_nosteal(b, ht, key, value, hash, BitAnd(h_idx + 1, mask),
                            h_idx_dist + 1, n + 1, fuel - 1, oob)

\* The outer loop (map.rs:181-232).  `n` counts the slots visited so far.
RECURSIVE insert_probe(_, _, _, _, _, _, _, _, _, _)
insert_probe(b, ht, key, value, hash, h_idx, h_idx_dist, n, fuel, oob) ==
  IF fuel = 0 THEN Result(b, ht, None, "hang", FALSE, n, 0)
  ELSE
  LET hash_index == ht[h_idx] IN
  IF is_empty(hash_index)
  THEN \* Case 1
       Result(Append(b, [key |-> key, value |-> value, hash |-> hash]),
              [ht EXCEPT ![h_idx] = HashIndex_new(hash, Len(b))],
              <<"Ok", None>>, "ok", FALSE, n + 1, 0)
  ELSE
  LET b_idx == hash_index.b_idx
      their_h_idx_dist == h_idx_distance(hash_index.hash, mask, h_idx)
  IN
  IF b_idx >= Len(b) /\ oob = "panic"
  THEN \* debug_assert!(b_idx < self.buckets.len())
       Result(b, ht, None, "panic", TRUE, n + 1, 0)
  ELSE IF their_h_idx_dist < h_idx_dist
  THEN \* Case 2
       LET r == insert_shift(ht, h_idx, HashIndex_new(hash, Len(b)), 0, fuel)
       IN IF r.status = "ok"
          THEN Result(Append(b, [key |-> key, value |-> value, hash |-> hash]),
                      r.hash_table, <<"Ok", None>>, "ok", FALSE, n + 1, r.shift)
          ELSE Result(b, r.hash_table, None, r.status, FALSE, n + 1, r.shift)
  ELSE IF hash_index.hash = hash /\ KeyEq(b, b_idx, key, oob)
  THEN \* Case 3
       IF b_idx < Len(b)
       THEN Result([b EXCEPT ![b_idx + 1].value = value], ht,
                   <<"Ok", Some(b[b_idx + 1].value)>>, "ok", FALSE, n + 1, 0)
       ELSE \* mem::replace through a dangling index: memory outside the
            \* live buckets is written, the live buckets are unchanged
            Result(b, ht, <<"Ok", Some(0)>>, "ok", TRUE, n + 1, 0)
  ELSE
  LET r == insert_probe(b, ht, key, value, hash, BitAnd(h_idx + 1, mask),
                        h_idx_dist + 1, n + 1, fuel - 1, oob)
  IN IF hash_index.hash = hash /\ b_idx >= Len(b)
     THEN [r EXCEPT !.ub = TRUE] ELSE r

\* mutant: an update sets the value of every entry with the hash of the key
insert_update_all(b, ht, key, value, oob) ==
  IF Len(b) = capacity
  THEN Result(b, ht, <<"Err", key, value>>, "ok", FALSE, 0, 0)
  ELSE LET hash == hash_with(key)
           r == insert_probe(b, ht, key, value, hash,
                             desired_h_idx(hash, mask), 0, 0, LoopLimit, oob)
       IN IF r.status = "ok" /\ r.ret[2] # None
          THEN [r EXCEPT !.buckets =
                  [i \in 1..Len(b) |->
                     IF b[i].hash = hash THEN [b[i] EXCEPT !.value = value]
                     ELSE b[i]]]
          ELSE r

\* mutant: insert without the is_full test
insert_no_full_check(b, ht, key, value, oob) ==
  LET hash == hash_with(key) IN
  insert_probe(b, ht, key, value, hash, desired_h_idx(hash, mask), 0, 0,
               LoopLimit, oob)

\* mutant: the full test is made only for a key that is not in the map
insert_full_check_late(b, ht, key, value, oob) ==
  IF Len(b) = capacity /\ ~(\E i \in 1..Len(b) : b[i].key = key)
  THEN Result(b, ht, <<"Err", key, value>>, "ok", FALSE, 0, 0)
  ELSE LET hash == hash_with(key) IN
       insert_probe(b, ht, key, value, hash, desired_h_idx(hash, mask), 0, 0,
                    LoopLimit, oob)

\* mutant: an update is made as a remove followed by an insert
insert_reinsert(b, ht, key, value, oob) ==
  IF Len(b) = capacity
  THEN Result(b, ht, <<"Err", key, value>>, "ok", FALSE, 0, 0)
  ELSE LET hash == hash_with(key)
           r == remove(b, ht, key, oob)
           i == insert_probe(r.buckets, r.hash_table, key, value, hash,
                             desired_h_idx(hash, mask), 0, 0, LoopLimit, oob)
       IN IF r.status = "ok" /\ r.ret # None /\ i.status = "ok"
          THEN [i EXCEPT !.ret = <<"Ok", r.ret>>]
          ELSE i

insert(b, ht, key, value, oob) ==
  IF Len(b) = capacity   \* self.buckets.is_full()
  THEN Result(b, ht, <<"Err", key, value>>, "ok", FALSE, 0, 0)
  ELSE LET hash == hash_with(key) IN
       insert_probe(b, ht, key, value, hash, desired_h_idx(hash, mask), 0, 0,
                    LoopLimit, oob)

----------------------------------------------------------------------------
(* Map::clear, Map::get and the wrapper (map.rs:321-337, lib.rs) *)

\* mutant: only the entry store is emptied
clear_buckets_only(b, ht) == [buckets |-> <<>>, hash_table |-> ht]

\* Map::clear (map.rs:321-326)
clear(b, ht) ==
  [buckets |-> <<>>,
   hash_table |-> [i \in DOMAIN ht |-> HashIndex_clear(ht[i])]]

\* mutant: the slot index is taken for the entry index
get_by_slot(b, ht, key, oob) ==
  LET f == find(b, ht, key, oob) IN
  [ret |-> IF f.status = "ok" /\ f.found
           THEN (IF f.h_idx < Len(b) THEN Some(b[f.h_idx + 1].value)
                 ELSE Some(0))
           ELSE None,
   status |-> f.status, ub |-> f.ub, probe |-> f.probe]

\* Map::get (map.rs:329-337)
get(b, ht, key, oob) ==
  LET f == find(b, ht, key, oob) IN
  [ret |-> IF f.status = "ok" /\ f.found
           THEN (IF f.b_idx < Len(b) THEN Some(b[f.b_idx + 1].value)
                 ELSE Some(0))
           ELSE None,
   status |-> f.status, ub |-> f.ub, probe |-> f.probe]

\* FcHashMap::len (lib.rs:325-327)
len(b) == Len(b)

\* FcHashMap::iter / keys / values (lib.rs:262-266, 308-310, 368-370):
\* the buckets in their physical order
iter(b) == [i \in 1..Len(b) |-> <<b[i].key, b[i].value>>]
keys(b) == [i \in 1..Len(b) |-> b[i].key]
values(b) == [i \in 1..Len(b) |-> b[i].value]

\* impl Extend for FcHashMap (lib.rs:425-432): insert(k, v).ok().unwrap()
\* for each item; a failed insert panics with the earlier items inserted
RECURSIVE extend(_, _, _, _, _)
extend(b, ht, items, done, oob) ==
  IF items = <<>>
  THEN [buckets |-> b, hash_table |-> ht, status |-> "ok", ub |-> FALSE,
        done |-> done]
  ELSE LET r == insert(b, ht, Head(items)[1], Head(items)[2], oob) IN
       IF r.status # "ok"
       THEN [buckets |-> r.buckets, hash_table |-> r.hash_table,
             status |-> r.status, ub |-> r.ub, done |-> done]
       ELSE IF r.ret[1] = "Err"
       THEN [buckets |-> r.buckets, hash_table |-> r.hash_table,
             status |-> "panic", ub |-> r.ub, done |-> done]
       ELSE LET e == extend(r.buckets, r.hash_table, Tail(items), done + 1, oob)
            IN [e EXCEPT !.ub = @ \/ r.ub]

\* mutant: the last item of the iterable is not inserted
from_iter_drop_last(items, oob) ==
  extend(Map_new.buckets, Map_new.hash_table,
         SubSeq(items, 1, Len(items) - 1), 0, oob)

\* impl FromIterator for FcHashMap (lib.rs:454-461)
from_iter(items, oob) ==
  extend(Map_new.buckets, Map_new.hash_table, items, 0, oob)

----------------------------------------------------------------------------
(* The outcomes of a call.  A call that makes no out-of-bounds access has   *)
(* one outcome; one that does has an outcome for each of OobOutcomes.       *)

insert_outcomes(b, ht, key, value) ==
  LET r0 == insert(b, ht, key, value, "panic") IN
  IF r0.ub THEN {insert(b, ht, key, value, oob) : oob \in OobOutcomes}
  ELSE {r0}

remove_outcomes(b, ht, key) ==
  LET r0 == remove(b, ht, key, "panic") IN
  IF r0.ub THEN {remove(b, ht, key, oob) : oob \in OobOutcomes} ELSE {r0}

get_outcomes(b, ht, key) ==
  LET r0 == get(b, ht, key, "panic") IN
  IF r0.ub THEN {get(b, ht, key, oob) : oob \in OobOutcomes} ELSE {r0}

extend_outcomes(b, ht, items) ==
  LET r0 == extend(b, ht, items, 0, "panic") IN
  IF r0.ub THEN {extend(b, ht, items, 0, oob) : oob \in OobOutcomes}
  ELSE {r0}

from_iter_outcomes(items) ==
  LET r0 == from_iter(items, "panic") IN
  IF r0.ub THEN {from_iter(items, oob) : oob \in OobOutcomes} ELSE {r0}

----------------------------------------------------------------------------
(* The state machine *)

\* the kind of a return value: None, Some(_), Ok(None), Ok(Some(_)), Err(_)
RetKind(ret) ==
  IF Len(ret) = 0 THEN "None"
  ELSE IF Len(ret) = 1 THEN "Some"
  ELSE IF Len(ret) = 3 THEN "Err"
  ELSE IF ret[2] = None THEN "OkNone" ELSE "OkSome"

\* the record of the last call: what was called, the kind of value it
\* returned and how it ended ("ok", "panic", "hang")
Last(op, ret, status) == [op |-> op, ret |-> RetKind(ret), status |-> status]

\* std::collections::HashMap as the tests use it: a function from the keys
\* to Option<V>
StdEmpty == [k \in Keys |-> None]
std_len(m) == Cardinality({k \in Keys : m[k] # None})

RECURSIVE std_extend(_, _, _)
std_extend(m, items, n) ==
  IF n = 0 THEN m
  ELSE std_extend([m EXCEPT ![Head(items)[1]] = Some(Head(items)[2])],
                  Tail(items), n - 1)

\* the iterables handed to extend and from_iter: up to MaxExtend pairs of
\* the last two keys with the last value
ItemSeqs ==
  UNION {[1..n -> {k \in Keys : k > NumKeys - 2} \X {NumVals}] :
           n \in 0..MaxExtend}

Init ==
  /\ buckets = Map_new.buckets
  /\ hash_table = Map_new.hash_table
  /\ last = Last("new", None, "ok")
  /\ std_hashmap = StdEmpty
  /\ first_inserted = <<>>

\* a call is possible while the program runs: no earlier call panicked or
\* failed to return
Running == last.status = "ok"

\* FcHashMap::insert (lib.rs:223-228)
InsertCall(k, v) ==
  \E r \in insert_outcomes(buckets, hash_table, k, v) :
    /\ Running
    /\ buckets' = r.buckets
    /\ hash_table' = r.hash_table
    /\ last' = Last("insert", r.ret, r.status)

\* the live pairs after an insert: the pair is live when insert returned Ok
StdAfterInsert(k, v, l) ==
  IF l.status = "ok" /\ l.ret \in {"OkNone", "OkSome"}
  THEN [std_hashmap EXCEPT ![k] = Some(v)] ELSE std_hashmap

Insert ==
  \E k \in Keys, v \in Vals :
    /\ InsertCall(k, v)
    /\ std_hashmap' = StdAfterInsert(k, v, last')
    /\ UNCHANGED first_inserted

\* FcHashMap::remove (lib.rs:345-351)
Remove ==
  \E k \in Keys : \E r \in remove_outcomes(buckets, hash_table, k) :
    /\ Running
    /\ buckets' = r.buckets
    /\ hash_table' = r.hash_table
    /\ last' = Last("remove", r.ret, r.status)
    /\ std_hashmap' = IF r.status = "ok" /\ r.ret # None
                      THEN [std_hashmap EXCEPT ![k] = None]
                      ELSE std_hashmap
    /\ UNCHANGED first_inserted

\* FcHashMap::clear (lib.rs:125-127)
Clear ==
  LET r == clear(buckets, hash_table) IN
  /\ Running
  /\ buckets' = r.buckets
  /\ hash_table' = r.hash_table
  /\ last' = Last("clear", None, "ok")
  /\ std_hashmap' = StdEmpty
  /\ UNCHANGED first_inserted

Next == Insert \/ Remove \/ Clear

Spec == Init /\ [][Next]_vars

----------------------------------------------------------------------------
(* The bulk operations beside the single ones *)

\* FcHashMap::extend (lib.rs:425-432)
Extend ==
  \E items \in ItemSeqs : \E r \in extend_outcomes(buckets, hash_table, items) :
    /\ Running
    /\ buckets' = r.buckets
    /\ hash_table' = r.hash_table
    /\ last' = Last("extend", None, r.status)
    /\ std_hashmap' = std_extend(std_hashmap, items, r.done)
    /\ UNCHANGED first_inserted

\* FcHashMap::from_iter (lib.rs:454-461): `map = items.collect()`.  When
\* extend panics the new map is dropped and the old one stays.
FromIter ==
  \E items \in ItemSeqs : \E r \in from_iter_outcomes(items) :
    /\ Running
    /\ buckets' = IF r.status = "ok" THEN r.buckets ELSE buckets
    /\ hash_table' = IF r.status = "ok" THEN r.hash_table ELSE hash_table
    /\ last' = Last("from_iter", None, r.status)
    /\ std_hashmap' = IF r.status = "ok"
                      THEN std_extend(StdEmpty, items, r.done)
                      ELSE std_hashmap
    /\ UNCHANGED first_inserted

NextBulk == Insert \/ Remove \/ Clear \/ Extend \/ FromIter

SpecBulk == Init /\ [][NextBulk]_vars

----------------------------------------------------------------------------
(* The Monte Carlo harness (tests/monte_carlo.rs): every call is made on   *)
(* the map and on a std HashMap, and the results are compared.  A failed   *)
(* assertion ends the harness.                                             *)

\* MonteCarlo::insert (monte_carlo.rs:22-54)
McInsert ==
  \E k \in Keys, v \in Vals : \E r \in insert_outcomes(buckets, hash_table, k, v) :
    LET r_std == std_hashmap[k]
        \* assert_eq!(r_v, r_std) / assert!(false)
        pass == r.ret[1] = "Ok" /\ r.ret[2] = r_std
    IN
    /\ Running
    /\ buckets' = r.buckets
    /\ hash_table' = r.hash_table
    /\ std_hashmap' = [std_hashmap EXCEPT ![k] = Some(v)]
    /\ last' = Last("insert", r.ret,
                    IF r.status = "ok" /\ ~pass THEN "panic" ELSE r.status)
    /\ UNCHANGED first_inserted

\* MonteCarlo::remove (monte_carlo.rs:56-72)
McRemove ==
  \E k \in Keys : \E r \in remove_outcomes(buckets, hash_table, k) :
    LET r_std == std_hashmap[k] IN
    /\ Running
    /\ buckets' = r.buckets
    /\ hash_table' = r.hash_table
    /\ std_hashmap' = [std_hashmap EXCEPT ![k] = None]
    /\ last' = Last("remove", r.ret,
                    IF r.status = "ok" /\ r.ret # r_std THEN "panic"
                    ELSE r.status)
    /\ UNCHANGED first_inserted

\* MonteCarlo::get (monte_carlo.rs:74-90)
McGet ==
  \E k \in Keys : \E r \in get_outcomes(buckets, hash_table, k) :
    LET r_std == std_hashmap[k] IN
    /\ Running
    /\ last' = Last("get", r.ret,
                    IF r.status = "ok" /\ r.ret # r_std THEN "panic"
                    ELSE r.status)
    /\ UNCHANGED <<buckets, hash_table, std_hashmap, first_inserted>>

NextMC == McInsert \/ McRemove \/ McGet

SpecMC == Init /\ [][NextMC]_vars

----------------------------------------------------------------------------
(* A caller that only inserts, and notes the order of the first inserts *)

InsInsert ==
  \E k \in Keys, v \in Vals :
    /\ InsertCall(k, v)
    /\ first_inserted' =
         IF last'.status = "ok" /\ last'.ret \in {"OkNone", "OkSome"}
            /\ ~(\E i \in 1..Len(first_inserted) : first_inserted[i] = k)
         THEN Append(first_inserted, k) ELSE first_inserted
    /\ std_hashmap' = StdAfterInsert(k, v, last')

NextIns == InsInsert

SpecIns == Init /\ [][NextIns]_vars

----------------------------------------------------------------------------
(* Properties.  A property about a call is stated for every call that can  *)
(* be made in a reachable state: the call is applied to the state as the   *)
(* actions apply it.                                                       *)

HasKey(b, k) == \E i \in 1..Len(b) : b[i].key = k

\* the calls as a caller makes them on the current state (debug build)
insert_of(k, v) == insert(buckets, hash_table, k, v, "panic")
find_of(k) == find(buckets, hash_table, k, "panic")
get_of(k) == get(buckets, hash_table, k, "panic")
remove_of(k) == remove(buckets, hash_table, k, "panic")

\* C1: in the Monte Carlo harness, as long as no insert was issued while
\* len() == capacity, every insert, get and remove returns what the std
\* HashMap returns for the same call and len() is the size of the std
\* HashMap; the harness stops only at an insert into a full map.
C1_MatchesReference ==
  IF last.status = "ok"
  THEN /\ len(buckets) = std_len(std_hashmap)
       /\ \A k \in Keys :
            LET g == get_of(k)
                r == remove_of(k)
            IN
            /\ g.status = "ok"
            /\ g.ret = std_hashmap[k]
            /\ r.status = "ok"
            /\ r.ret = std_hashmap[k]
            /\ len(r.buckets) = std_len([std_hashmap EXCEPT ![k] = None])
            /\ len(buckets) < capacity =>
                 \A v \in Vals :
                   LET i == insert_of(k, v) IN
                   /\ i.status = "ok"
                   /\ i.ret = <<"Ok", std_hashmap[k]>>
                   /\ len(i.buckets)
                        = std_len([std_hashmap EXCEPT ![k] = Some(v)])
  ELSE last.op = "insert" /\ last.ret = "Err" /\ len(buckets) = capacity

\* a get returned a value that an insert had updated, from a map that a remove
\* had reordered
C1_Witness ==
  /\ last.op = "get" /\ last.ret = "Some" /\ last.status = "ok"
  /\ len(buckets) = capacity - 1
  /\ buckets[1].key = NumKeys /\ buckets[1].value = NumVals
  /\ std_hashmap[NumKeys] = Some(NumVals)

\* C2: an insert in a state with len() == capacity returns Err with the
\* caller's key and value and changes neither the entry store nor any slot.
C2_FullInsertFails ==
  len(buckets) = capacity =>
    \A k \in Keys, v \in Vals :
      LET r == insert_of(k, v) IN
      /\ r.status = "ok"
      /\ r.ret = <<"Err", k, v>>
      /\ r.buckets = buckets
      /\ r.hash_table = hash_table

\* an insert into the full map was refused, and there is a key the map does
\* not hold
C2_Witness ==
  /\ last.op = "insert" /\ last.ret = "Err"
  /\ len(buckets) = capacity
  /\ \E k \in Keys : ~HasKey(buckets, k)

\* C3 (as claimed): an insert of a present key, at any len() up to capacity,
\* returns Ok(Some(previous value)), sets the value and keeps len().
C3_UpdateAtAnyLen ==
  \A k \in Keys, v \in Vals :
    std_hashmap[k] # None =>
      LET r == insert_of(k, v) IN
      /\ r.status = "ok"
      /\ r.ret = <<"Ok", std_hashmap[k]>>
      /\ get(r.buckets, r.hash_table, k, "panic").ret = Some(v)
      /\ len(r.buckets) = len(buckets)

\* C4: an insert of an absent key in a state with len() < capacity returns
\* Ok(None), adds one to len() and makes get(k) return the value.
C4_InsertAbsent ==
  len(buckets) < capacity =>
    \A k \in Keys, v \in Vals :
      std_hashmap[k] = None =>
        LET r == insert_of(k, v) IN
        /\ r.status = "ok"
        /\ r.ret = <<"Ok", None>>
        /\ len(r.buckets) = len(buckets) + 1
        /\ get(r.buckets, r.hash_table, k, "panic").ret = Some(v)

\* the insert that filled the map with capacity distinct keys
C4_Witness ==
  /\ last.op = "insert" /\ last.ret = "OkNone"
  /\ len(buckets) = capacity
  /\ \A i, j \in 1..capacity : i # j => buckets[i].key # buckets[j].key

\* C5: remove of a present key returns its value, takes one from len(), makes
\* the key absent (removing it again returns None) and leaves the value of
\* every other key as it was; remove of an absent key returns None and changes
\* neither the entry store nor the slot table.
C5_Remove ==
  \A k \in Keys :
    LET r == remove_of(k) IN
    /\ r.status = "ok"
    /\ r.ret = std_hashmap[k]
    /\ IF std_hashmap[k] # None
       THEN /\ len(r.buckets) = len(buckets) - 1
            /\ get(r.buckets, r.hash_table, k, "panic").ret = None
            /\ remove(r.buckets, r.hash_table, k, "panic").ret = None
            /\ \A k2 \in Keys \ {k} :
                 get(r.buckets, r.hash_table, k2, "panic").ret = get_of(k2).ret
       ELSE /\ r.buckets = buckets
            /\ r.hash_table = hash_table

\* a remove returned a value and left a map in which a further remove
\* relocates the last entry and shifts slots backward
C5_Witness ==
  /\ last.op = "remove" /\ last.ret = "Some"
  /\ len(buckets) = capacity - 1
  /\ \E k \in Keys : remove_of(k).repoint > 1 /\ remove_of(k).bshift > 1

\* C6: find of every key of the entry store returns a slot that is occupied
\* and holds the index of the entry with that key; find of every other key
\* returns None.
C6_FindSound ==
  \A k \in Keys :
    LET f == find_of(k) IN
    /\ f.status = "ok"
    /\ f.found = HasKey(buckets, k)
    /\ f.found => /\ ~is_empty(hash_table[f.h_idx])
                  /\ hash_table[f.h_idx].b_idx = f.b_idx
                  /\ f.b_idx < len(buckets)
                  /\ buckets[f.b_idx + 1].key = k

\* after a remove a key is still found two slots away from its ideal slot
C6_Witness ==
  /\ last.op = "remove" /\ last.ret = "Some"
  /\ \E k \in Keys : find_of(k).found /\ find_of(k).probe > 2

\* C7 (as claimed): every mutating call either completes or leaves the map
\* as it was: a call that ends in an error return or a panic has changed
\* neither the entry store nor the slot table.
C7_AllOrNothing ==
  [][(last'.status # "ok" \/ last'.ret = "Err")
       => (buckets' = buckets /\ hash_table' = hash_table)]_vars

\* the slots an insert visits: the inner loop starts on the slot the outer
\* loop stopped at
InsertVisits(r) == r.probe + (IF r.shift > 0 THEN r.shift - 1 ELSE 0)

\* C8: every loop ends.  find visits at most capacity + 1 slots, an insert
\* with len() < capacity visits at most capacity slots, and the repointing
\* scan and the backward shift of remove take at most capacity steps each.
C8_LoopsBounded ==
  /\ \A k \in Keys :
       LET f == find_of(k)
           r == remove_of(k)
       IN
       /\ f.status = "ok" /\ f.probe <= capacity + 1
       /\ r.status = "ok" /\ r.repoint <= capacity /\ r.bshift <= capacity
  /\ \A k \in Keys, v \in Vals :
       LET i == insert_of(k, v) IN
       /\ i.status = "ok"
       /\ len(buckets) < capacity => InsertVisits(i) <= capacity

\* the table is full after a remove that found nothing: find of an absent key
\* takes capacity + 1 visits and some remove shifts for capacity steps
C8_Witness ==
  /\ last.op = "remove" /\ last.ret = "None"
  /\ len(buckets) = capacity
  /\ \E k \in Keys : ~HasKey(buckets, k) /\ find_of(k).probe = capacity + 1
  /\ \E k \in Keys : remove_of(k).bshift = capacity

\* C9: with inserts only, iter / keys / values yield the entries in the order
\* in which their keys were first inserted, and an insert of a present key
\* changes nothing but that entry's value: every other entry and the position
\* of every key stay as they were.
C9_InsertionOrder ==
  /\ keys(buckets) = first_inserted
  /\ iter(buckets) = [i \in 1..Len(first_inserted) |->
                        <<first_inserted[i], std_hashmap[first_inserted[i]][1]>>]
  /\ values(buckets) = [i \in 1..Len(first_inserted) |->
                          std_hashmap[first_inserted[i]][1]]
  /\ \A k \in Keys, v \in Vals :
       HasKey(buckets, k) =>
         LET r == insert_of(k, v) IN
         /\ r.status = "ok"
         /\ keys(r.buckets) = keys(buckets)
         /\ \A i \in 1..len(buckets) :
              /\ buckets[i].key # k => r.buckets[i] = buckets[i]
              /\ buckets[i].key = k =>
                   /\ r.buckets[i].key = k
                   /\ r.ret[1] = "Ok" => r.buckets[i].value = v

\* an update was made in a map whose insertion order is not the key order
C9_Witness ==
  /\ last.op = "insert" /\ last.ret = "OkSome"
  /\ len(buckets) = capacity - 1
  /\ first_inserted[1] = NumKeys /\ first_inserted[2] = 1

\* C10: remove of the entry at position i moves the last entry to position i
\* and nothing else (nothing moves when i is the last position); the
\* iterated entries are the live pairs, each once.
C10_SwapRemove ==
  /\ \A i \in 1..len(buckets) :
       LET r == remove_of(buckets[i].key)
           n == len(buckets)
       IN
       /\ r.status = "ok"
       /\ iter(r.buckets) = [j \in 1..(n - 1) |->
                               IF j = i THEN iter(buckets)[n]
                               ELSE iter(buckets)[j]]
  /\ \A i, j \in 1..len(buckets) : i # j => buckets[i].key # buckets[j].key
  /\ \A i \in 1..len(buckets) :
       std_hashmap[buckets[i].key] = Some(buckets[i].value)
  /\ \A k \in Keys : std_hashmap[k] # None => HasKey(buckets, k)

\* a remove has taken an entry out of a map of three or more, and a further
\* remove of the first entry relocates the last one
C10_Witness ==
  /\ last.op = "remove" /\ last.ret = "Some"
  /\ len(buckets) >= 3
  /\ remove_of(buckets[1].key).repoint > 0
  /\ buckets[1].key > buckets[2].key

----------------------------------------------------------------------------
(* clear and the entry indices it leaves behind *)

\* FcHashMap::is_empty (lib.rs:243-245)
FcHashMap_is_empty(b) == len(b) = 0

\* the slot table with every empty slot as Map::new writes it (map.rs:138-141):
\* the entry index that clear or a backward shift left in the slot is gone
WithoutStale(ht) ==
  [i \in DOMAIN ht |->
     IF is_empty(ht[i]) THEN [hash |-> HASH_VALUE_IS_EMPTY, b_idx |-> 0]
     ELSE ht[i]]

\* two results of the same call agree: same return value, same entry store
\* (hence the same iteration order) and the same occupied slots
SameResult(r1, r2) ==
  /\ r1.status = "ok" /\ r2.status = "ok"
  /\ r1.ret = r2.ret
  /\ r1.buckets = r2.buckets
  /\ WithoutStale(r1.hash_table) = WithoutStale(r2.hash_table)

\* C11: clear() in any reachable state leaves len() == 0, is_empty(), every
\* slot empty, the table at its capacity and every key not found; the cleared
\* map is a freshly constructed one up to the entry indices in its empty
\* slots, and these have no effect: every call gives the same result, entry
\* store and occupied slots whether the empty slots of the state it is made in
\* hold left-over indices or the index of a new map.  By induction the same
\* holds for every sequence of calls after clear().
C11_Clear ==
  LET c == clear(buckets, hash_table)
      clean == WithoutStale(hash_table)
  IN
  /\ len(c.buckets) = 0
  /\ FcHashMap_is_empty(c.buckets)
  /\ DOMAIN c.hash_table = 0..(capacity - 1)
  /\ \A i \in DOMAIN c.hash_table : is_empty(c.hash_table[i])
  /\ \A k \in Keys : ~find(c.buckets, c.hash_table, k, "panic").found
  /\ c.buckets = Map_new.buckets
  /\ WithoutStale(c.hash_table) = Map_new.hash_table
  /\ \A k \in Keys :
       /\ \A v \in Vals :
            /\ SameResult(insert(c.buckets, c.hash_table, k, v, "panic"),
                          insert(Map_new.buckets, Map_new.hash_table, k, v,
                                 "panic"))
            /\ SameResult(insert_of(k, v),
                          insert(buckets, clean, k, v, "panic"))
       /\ SameResult(remove_of(k), remove(buckets, clean, k, "panic"))
       /\ get_of(k).ret = get(buckets, clean, k, "panic").ret
       /\ get_of(k).status = "ok"

\* a clear has left the index of the last entry of a full map in a slot, and
\* an insert into the cleared map lands on a slot with a left-over index
C11_Witness ==
  /\ last.op = "clear"
  /\ \E i \in DOMAIN hash_table : hash_table[i].b_idx = capacity - 1
  /\ \E k \in Keys :
       hash_table[desired_h_idx(hash_with(k), mask)].b_idx # 0

----------------------------------------------------------------------------
(* Map::new for any const generic CAP (map.rs:133-144).  The table of a   *)
(* large CAP is not built: the state is the capacity, whether new()       *)
(* passed its assertions, and the last entry index written to a slot.     *)

\* log2 of the largest power of two tried as CAP
MaxCapBits == 17
\* every CAP from 1 up to this number is tried as well
MaxSmallCap == 40

\* the limit on the number of elements in the standard configuration
\* (map.rs:68-70)
IndexLimit == 32767

NewCaps == (1..MaxSmallCap) \cup {2 ^ i : i \in 0..MaxCapBits}

\* `x as u32` and u32::MAX as pairs of 16 bit halves, compared as u32
as_u32(x) == <<(x \div 65536) % 65536, x % 65536>>
u32_MAX == <<65535, 65535>>
u32_lt(a, b) == a[1] < b[1] \/ (a[1] = b[1] /\ a[2] < b[2])

\* the two debug_asserts of Map::new (map.rs:134-135)
new_asserts(cap) ==
  /\ u32_lt(as_u32(cap), u32_MAX)
  /\ count_ones(cap) = 1

NewLast(op, cap, status, b_idx, stored) ==
  [op |-> op, ret |-> "None", status |-> status, cap |-> cap,
   b_idx |-> b_idx, stored |-> stored]

\* a map type FcHashMap<K, V, CAP> is chosen
InitNew ==
  /\ buckets = <<>>
  /\ hash_table = <<>>
  /\ \E cap \in NewCaps : last = NewLast("type", cap, "ok", 0, 0)
  /\ std_hashmap = StdEmpty
  /\ first_inserted = <<>>

\* Map::new() in a debug build: a failed debug_assert panics
NewCall ==
  /\ last.op = "type"
  /\ last' = NewLast("new", last.cap,
                     IF new_asserts(last.cap) THEN "ok" ELSE "panic", 0, 0)
  /\ UNCHANGED <<buckets, hash_table, std_hashmap, first_inserted>>

\* the entry indices tried for a capacity: the first, the last, and those
\* around the middle
IndexSamples(cap) ==
  {i \in {0, 1, cap \div 2, (cap \div 2) + 1, cap - 1} : i < cap}

\* HashIndex::new(hash, self.buckets.len()) as insert calls it
\* (map.rs:186, 200) in a map with len() == b_idx < CAP
StoreIndex ==
  /\ last.op \in {"new", "HashIndex_new"}
  /\ last.status = "ok"
  /\ \E b_idx \in IndexSamples(last.cap) :
       last' = NewLast("HashIndex_new", last.cap, "ok", b_idx,
                       HashIndex_new(0, b_idx).b_idx)
  /\ UNCHANGED <<buckets, hash_table, std_hashmap, first_inserted>>

NextNew == NewCall \/ StoreIndex

SpecNew == InitNew /\ [][NextNew]_vars

\* C12 (as claimed): new() passes its assertions only for a capacity that is
\* a power of two and at most the index limit (32767), so that every entry
\* index below an accepted capacity is stored in a slot as it is.
C12_NewChecks ==
  (last.op \in {"new", "HashIndex_new"} /\ last.status = "ok") =>
    /\ count_ones(last.cap) = 1
    /\ last.cap <= IndexLimit
    /\ last.op = "HashIndex_new" => last.stored = last.b_idx

----------------------------------------------------------------------------
(* The lookups built on find *)

\* FcHashMap::contains_key (lib.rs:145-151): self.map.find(key).is_some()
contains_key(b, ht, key, oob) ==
  LET f == find(b, ht, key, oob) IN
  [ret |-> f.status = "ok" /\ f.found, status |-> f.status, ub |-> f.ub]

\* Map::get_mut (map.rs:340-350): a mutable reference to the value of entry
\* b_idx; `entry` is the entry the reference points into
get_mut(b, ht, key, oob) ==
  LET f == find(b, ht, key, oob) IN
  IF f.status = "ok" /\ f.found
  THEN [ret |-> IF f.b_idx < Len(b) THEN Some(b[f.b_idx + 1].value)
                ELSE Some(0),
        entry |-> Some(f.b_idx), status |-> f.status, ub |-> f.ub]
  ELSE [ret |-> None, entry |-> None, status |-> f.status, ub |-> f.ub]

\* C13: for every key, contains_key is true exactly when get is Some exactly
\* when find is Some((s, e)); get and get_mut then give the value stored in
\* entry e; on an empty map all of them report absence.
C13_LookupsAgree ==
  \A k \in Keys :
    LET f == find_of(k)
        g == get_of(k)
        m == get_mut(buckets, hash_table, k, "panic")
        c == contains_key(buckets, hash_table, k, "panic")
    IN
    /\ f.status = "ok" /\ g.status = "ok" /\ m.status = "ok" /\ c.status = "ok"
    /\ c.ret = f.found
    /\ (g.ret # None) = f.found
    /\ (m.ret # None) = f.found
    /\ f.found => /\ f.b_idx < len(buckets)
                  /\ g.ret = Some(buckets[f.b_idx + 1].value)
                  /\ m.ret = Some(buckets[f.b_idx + 1].value)
                  /\ m.entry = Some(f.b_idx)
    /\ len(buckets) = 0 => (~c.ret /\ g.ret = None /\ m.ret = None /\ ~f.found)

\* a get returned a value from a map in which a key's slot index is not its
\* entry index and the entries hold different values
C13_Witness ==
  /\ last.op = "get" /\ last.ret = "Some" /\ last.status = "ok"
  /\ \E k \in Keys : find_of(k).found /\ find_of(k).h_idx # find_of(k).b_idx
  /\ \E i, j \in 1..len(buckets) : buckets[i].value # buckets[j].value

----------------------------------------------------------------------------
(* Rebuilding a map from its entries *)

\* the entries of the map as iteration yields them, collected into a new map
\* of the same capacity: map.iter().collect()
round_trip(b) == from_iter(iter(b), "panic")

\* C14: the map rebuilt from the iterated entries of any reachable map has
\* the same len() and the same value for every key.
C14_RoundTrip ==
  LET r == round_trip(buckets) IN
  /\ r.status = "ok"
  /\ r.done = len(buckets)
  /\ len(r.buckets) = len(buckets)
  /\ \A k \in Keys :
       get(r.buckets, r.hash_table, k, "panic").ret = get_of(k).ret

\* a full map, changed last by an insert, whose occupied slots are not those
\* of the map rebuilt from its entries
C14_Witness ==
  /\ last.op = "insert" /\ last.ret = "OkNone"
  /\ len(buckets) = capacity
  /\ WithoutStale(round_trip(buckets).hash_table) # WithoutStale(hash_table)

----------------------------------------------------------------------------
(* Probe distances *)

\* the slot at offset d from the ideal slot of key k
SlotAt(k, d) == BitAnd(desired_h_idx(hash_with(k), mask) + d, mask)

\* the probe distance of the occupant of slot p: its position minus the ideal
\* slot of its stored hash, mod capacity (map.rs:193, 306)
their_h_idx_dist(ht, p) == h_idx_distance(ht[p].hash, mask, p)

\* the offsets on the probe path of k at which the slot is occupied by an
\* entry whose own probe distance is smaller than the offset
RicherAt(k) ==
  {d \in 0..(capacity - 1) :
     /\ ~is_empty(hash_table[SlotAt(k, d)])
     /\ their_h_idx_dist(hash_table, SlotAt(k, d)) < d}

\* C15 (as claimed): an unsuccessful find stops at the first occupied slot
\* whose own probe distance is smaller than the distance traveled: it visits
\* no slot beyond that one.
C15_FindStopsEarly ==
  \A k \in Keys :
    LET f == find_of(k) IN
    (len(buckets) > 0 /\ ~f.found /\ RicherAt(k) # {}) =>
      \A d \in RicherAt(k) : f.probe <= d + 1

----------------------------------------------------------------------------
(* Invariants of the two arrays *)

\* the positions of the occupied slots
Occupied(ht) == {p \in DOMAIN ht : ~is_empty(ht[p])}

\* C16: the occupied slots and the entry indices 0..len()-1 correspond one
\* to one: every occupied slot holds an index < len(), the entry at that
\* index stores the hash of the slot, no two occupied slots hold the same
\* index and there are len() occupied slots.  Hence no call fails a
\* debug_assert on b_idx or makes an out-of-bounds entry access.
C16_SlotsMatchEntries ==
  /\ \A p \in Occupied(hash_table) :
       /\ hash_table[p].b_idx < len(buckets)
       /\ buckets[hash_table[p].b_idx + 1].hash = hash_table[p].hash
  /\ \A p, q \in Occupied(hash_table) :
       p # q => hash_table[p].b_idx # hash_table[q].b_idx
  /\ Cardinality(Occupied(hash_table)) = len(buckets)
  /\ last.status # "ok" => (last.op = "extend" /\ len(buckets) = capacity)
  /\ \A k \in Keys :
       /\ ~find_of(k).ub /\ find_of(k).status = "ok"
       /\ ~remove_of(k).ub /\ remove_of(k).status = "ok"
       /\ \A v \in Vals : ~insert_of(k, v).ub /\ insert_of(k, v).status = "ok"

\* a remove has relocated the last entry, and an empty slot still holds an
\* index that is no longer live
C16_Witness ==
  /\ last.op = "remove" /\ last.ret = "Some"
  /\ len(buckets) >= 2
  /\ \E p \in Occupied(hash_table) : hash_table[p].b_idx # p
  /\ \E p \in DOMAIN hash_table :
       is_empty(hash_table[p]) /\ hash_table[p].b_idx >= len(buckets)

\* C17: Robin Hood ordering.  For every occupied slot p with probe distance
\* d, each slot at offset j < d from the ideal slot of p's entry is occupied
\* by an entry of probe distance at least j; and of two cyclically adjacent
\* occupied slots the later has at most the probe distance of the earlier
\* plus one.
C17_RobinHoodOrder ==
  /\ \A p \in Occupied(hash_table) :
       LET d == their_h_idx_dist(hash_table, p)
           ideal == desired_h_idx(hash_table[p].hash, mask)
       IN \A j \in 0..(d - 1) :
            LET q == BitAnd(ideal + j, mask) IN
            /\ q \in Occupied(hash_table)
            /\ their_h_idx_dist(hash_table, q) >= j
  /\ \A p \in Occupied(hash_table) :
       LET q == BitAnd(p + 1, mask) IN
       q \in Occupied(hash_table) =>
         their_h_idx_dist(hash_table, q) <= their_h_idx_dist(hash_table, p) + 1

\* an insert has stolen a slot: an entry with ideal slot 0 sits behind an
\* entry that came around the end of the table with probe distance 2
C17_Witness ==
  /\ last.op = "insert" /\ last.ret = "OkNone"
  /\ \E p \in Occupied(hash_table) :
       /\ their_h_idx_dist(hash_table, p) = 2
       /\ desired_h_idx(hash_table[p].hash, mask) = mask
       /\ BitAnd(p + 1, mask) \in Occupied(hash_table)
       /\ desired_h_idx(hash_table[BitAnd(p + 1, mask)].hash, mask) = 0

\* C18: no hole inside a probe run.  For every occupied slot all slots from
\* the ideal slot of its entry up to its position, around the end of the table
\* where the run wraps, are occupied; and an occupied slot that directly
\* follows an empty slot has probe distance 0.
C18_NoHoles ==
  /\ \A p \in Occupied(hash_table) :
       \A j \in 0..their_h_idx_dist(hash_table, p) :
         BitAnd(desired_h_idx(hash_table[p].hash, mask) + j, mask)
           \in Occupied(hash_table)
  /\ \A p \in Occupied(hash_table) :
       is_empty(hash_table[BitAnd(p + mask, mask)]) =>
         their_h_idx_dist(hash_table, p) = 0

\* a remove has closed its gap in a run that wraps from the last slot to
\* slot 0 and goes on to slot 1, with an empty slot behind it
C18_Witness ==
  /\ last.op = "remove" /\ last.ret = "Some"
  /\ 0 \in Occupied(hash_table)
  /\ desired_h_idx(hash_table[0].hash, mask) = mask
  /\ 1 \in Occupied(hash_table)
  /\ their_h_idx_dist(hash_table, 1) > 0
  /\ is_empty(hash_table[2])

\* C19: the keys of the entry store are pairwise distinct, and an insert of a
\* key that is present adds no entry: it ends at the key's slot without
\* having stolen a slot on the way.
C19_DistinctKeys ==
  /\ \A i, j \in 1..len(buckets) :
       i # j => buckets[i].key # buckets[j].key
  /\ \A k \in Keys, v \in Vals :
       HasKey(buckets, k) =>
         LET r == insert_of(k, v) IN
         /\ r.status = "ok"
         /\ len(r.buckets) = len(buckets)
         /\ keys(r.buckets) = keys(buckets)
         /\ r.shift = 0
         /\ r.hash_table = hash_table

\* an insert has updated a key that shares its truncated hash with another
\* key of the map and sits behind it in the run
C19_Witness ==
  /\ last.op = "insert" /\ last.ret = "OkSome"
  /\ \E k1, k2 \in Keys :
       /\ k1 # k2 /\ hash_with(k1) = hash_with(k2)
       /\ find_of(k1).found /\ find_of(k2).found
       /\ find_of(k2).probe >= 2
       /\ std_hashmap[k2] = Some(NumVals)

----------------------------------------------------------------------------
(* The steal of insert *)

\* the slot an insert that stole took for its key: the last slot the outer
\* loop visited
StealSlot(k, r) == SlotAt(k, r.probe - 1)

\* the slots behind the stolen one whose occupant the insert displaced
Displaced(k, r) ==
  {q \in Occupied(hash_table) \ {StealSlot(k, r)} :
     r.hash_table[q] # hash_table[q]}

\* C20 (as claimed): after a steal, an occupant behind the stolen slot is
\* displaced only when its probe distance is smaller than the distance the
\* entry that takes its slot has there.
C20_DisplacesOnlyRicher ==
  \A k \in Keys, v \in Vals :
    LET r == insert_of(k, v) IN
    (r.status = "ok" /\ r.shift > 0) =>
      \A q \in Displaced(k, r) :
        their_h_idx_dist(hash_table, q) < their_h_idx_dist(r.hash_table, q)

\* C20 (amended): after a steal, the occupant of the stolen slot and every
\* occupant behind it up to the first empty slot move one slot forward,
\* whatever their probe distances: the key takes the stolen slot, the empty
\* slot takes the last of the run, no other slot changes, and a displaced
\* occupant's probe distance is at most (not always less than) the distance
\* the entry that takes its slot has there.
C20_ShiftsWholeRun ==
  \A k \in Keys, v \in Vals :
    LET r == insert_of(k, v)
        p == StealSlot(k, r)
        run == {BitAnd(p + j, mask) : j \in 0..(r.shift - 1)}
    IN
    (r.status = "ok" /\ r.shift > 0) =>
      /\ r.hash_table[p] = HashIndex_new(hash_with(k), len(buckets))
      /\ \A j \in 0..(r.shift - 2) :
           /\ BitAnd(p + j, mask) \in Occupied(hash_table)
           /\ r.hash_table[BitAnd(p + j + 1, mask)]
                = hash_table[BitAnd(p + j, mask)]
      /\ is_empty(hash_table[BitAnd(p + r.shift - 1, mask)])
      /\ \A q \in DOMAIN hash_table \ run : r.hash_table[q] = hash_table[q]
      /\ \A q \in Displaced(k, r) :
           their_h_idx_dist(hash_table, q) <= their_h_idx_dist(r.hash_table, q)

\* the map is as the insert of its newest key left it: the insert stole a
\* slot and displaced an occupant whose probe distance was equal to that of
\* the entry that took its slot
C20_Witness ==
  /\ last.op = "insert" /\ last.ret = "OkNone"
  /\ LET k == buckets[len(buckets)].key
         v == buckets[len(buckets)].value
         pre == remove_of(k)
         r == insert(pre.buckets, pre.hash_table, k, v, "panic")
     IN
     /\ r.buckets = buckets /\ r.hash_table = hash_table
     /\ r.shift >= 3
     /\ \E q \in Occupied(pre.hash_table) \ {SlotAt(k, r.probe - 1)} :
          /\ r.hash_table[q] # pre.hash_table[q]
          /\ their_h_idx_dist(pre.hash_table, q)
               = their_h_idx_dist(r.hash_table, q)

----------------------------------------------------------------------------
(* The steps of remove_found *)

\* the slot table after the found slot was cleared (map.rs:275)
AfterClearSlot(f) == [hash_table EXCEPT ![f.h_idx] = HashIndex_clear(@)]

\* the index correction of remove_found for the result f of find
\* (map.rs:281-292), on the table in which the found slot is cleared
Repointed(f) ==
  LET b1 == swap_pop(buckets, f.b_idx)
      bucket == b1[f.b_idx + 1]
  IN repoint_scan(AfterClearSlot(f), desired_h_idx(bucket.hash, mask),
                  Len(b1), HashIndex_new(bucket.hash, f.b_idx), 0, LoopLimit)

\* C21: when remove relocates the last entry, the repointing scan writes the
\* occupied slot that referenced the relocated entry and nothing else: it
\* selects no empty slot with a stale index and leaves every empty slot
\* empty.
C21_RepointsOwningSlot ==
  \A k \in Keys :
    LET f == find_of(k) IN
    (f.found /\ f.b_idx < len(buckets) - 1) =>
      LET ht1 == AfterClearSlot(f)
          rp == Repointed(f)
          owner == {p \in Occupied(ht1) : ht1[p].b_idx = len(buckets) - 1}
      IN
      /\ rp.status = "ok"
      /\ Cardinality(owner) = 1
      /\ \A p \in owner :
           /\ rp.hash_table[p] = [hash |-> ht1[p].hash, b_idx |-> f.b_idx]
           /\ rp.hash_table[p].hash = buckets[len(buckets)].hash
      /\ \A p \in DOMAIN ht1 \ owner : rp.hash_table[p] = ht1[p]
      /\ Occupied(rp.hash_table) = Occupied(ht1)

\* after a remove, a further remove relocates the last entry with a scan of
\* two or more slots while an empty slot carries an index that is not below
\* the new length
C21_Witness ==
  /\ last.op = "remove" /\ last.ret = "Some"
  /\ \E k \in Keys :
       /\ find_of(k).found /\ find_of(k).b_idx < len(buckets) - 1
       /\ Repointed(find_of(k)).steps >= 2
  /\ \E p \in DOMAIN hash_table :
       is_empty(hash_table[p]) /\ hash_table[p].b_idx >= len(buckets) - 1

\* the slot table on which the backward shift of remove_found starts for the
\* result f of find: the found slot cleared, the relocated entry repointed
BeforeShift(f) ==
  IF f.b_idx < len(buckets) - 1 THEN Repointed(f).hash_table
  ELSE AfterClearSlot(f)

\* the number of consecutive occupied slots with probe distance > 0 that
\* follow slot g in ht
RECURSIVE RunBehind(_, _, _)
RunBehind(ht, g, n) ==
  LET q == BitAnd(g + n + 1, mask) IN
  IF n < capacity - 1 /\ ~is_empty(ht[q]) /\ their_h_idx_dist(ht, q) > 0
  THEN RunBehind(ht, g, n + 1) ELSE n

\* C22: the backward shift moves exactly the maximal sequence of consecutive
\* occupied slots with probe distance > 0 behind the cleared slot one slot
\* back each (hash and entry index unchanged, probe distance one less),
\* changes no other slot, and ends with a gap whose next slot is empty or at
\* its ideal position.
C22_BackwardShift ==
  \A k \in Keys :
    LET f == find_of(k) IN
    f.found =>
      LET ht == BeforeShift(f)
          g == f.h_idx
          m == RunBehind(ht, g, 0)
          bs == backward_shift(ht, g, 0, LoopLimit)
          gap == BitAnd(g + m, mask)
          next == BitAnd(gap + 1, mask)
      IN
      /\ bs.status = "ok"
      /\ bs.steps = m + 1
      /\ \A j \in 0..(m - 1) :
           LET from == BitAnd(g + j + 1, mask)
               to == BitAnd(g + j, mask)
           IN
           /\ bs.hash_table[to].hash = ht[from].hash
           /\ bs.hash_table[to].b_idx = ht[from].b_idx
           /\ their_h_idx_dist(bs.hash_table, to)
                = their_h_idx_dist(ht, from) - 1
      /\ is_empty(bs.hash_table[gap])
      /\ \A p \in DOMAIN ht \ {BitAnd(g + j, mask) : j \in 0..m} :
           bs.hash_table[p] = ht[p]
      /\ \/ is_empty(bs.hash_table[next])
         \/ their_h_idx_dist(bs.hash_table, next) = 0
      /\ bs.hash_table = remove_of(k).hash_table

\* in a map that an insert has filled, a remove shifts two slots back and
\* stops in front of an occupied slot that is at its ideal position
C22_Witness ==
  /\ last.op = "insert" /\ last.ret = "OkNone"
  /\ len(buckets) = capacity
  /\ \E k \in Keys :
       LET f == find_of(k) IN
       /\ f.found
       /\ RunBehind(BeforeShift(f), f.h_idx, 0) = 2
       /\ ~is_empty(hash_table[BitAnd(f.h_idx + 3, mask)])
       /\ their_h_idx_dist(hash_table, BitAnd(f.h_idx + 3, mask)) = 0

----------------------------------------------------------------------------
(* Keys with equal truncated hash *)

\* the pairs of distinct keys whose truncated hashes are equal
SameHashPairs ==
  {kk \in Keys \X Keys : kk[1] # kk[2] /\ hash_with(kk[1]) = hash_with(kk[2])}

\* C23: two distinct keys with the same truncated hash are separate entries:
\* an insert of one returns the previous value of that key and leaves the
\* other's value, find / get of each gives its own entry and value, and a
\* remove of one leaves the other with its value.
C23_SameHashKeys ==
  \A kk \in SameHashPairs :
    LET k1 == kk[1]
        k2 == kk[2]
        f1 == find_of(k1)
        rm == remove_of(k1)
    IN
    /\ get_of(k1).ret = std_hashmap[k1]
    /\ f1.found = (std_hashmap[k1] # None)
    /\ f1.found => buckets[f1.b_idx + 1].key = k1
    /\ (f1.found /\ find_of(k2).found) => f1.b_idx # find_of(k2).b_idx
    /\ \A v \in Vals :
         LET i == insert_of(k1, v) IN
         /\ i.status = "ok"
         /\ i.ret \in {<<"Ok", std_hashmap[k1]>>, <<"Err", k1, v>>}
         /\ get(i.buckets, i.hash_table, k2, "panic").ret = std_hashmap[k2]
         /\ i.ret[1] = "Ok" =>
              get(i.buckets, i.hash_table, k1, "panic").ret = Some(v)
    /\ rm.status = "ok"
    /\ rm.ret = std_hashmap[k1]
    /\ get(rm.buckets, rm.hash_table, k2, "panic").ret = std_hashmap[k2]
    /\ get(rm.buckets, rm.hash_table, k1, "panic").ret = None

\* an insert has updated one of two keys with the same truncated hash, and
\* the two hold different values
C23_Witness ==
  /\ last.op = "insert" /\ last.ret = "OkSome"
  /\ \E kk \in SameHashPairs :
       /\ std_hashmap[kk[1]] # None /\ std_hashmap[kk[2]] # None
       /\ std_hashmap[kk[1]] # std_hashmap[kk[2]]
       /\ find_of(kk[1]).probe < find_of(kk[2]).probe

\* C24: an insert that takes the update path (the key is present and the map
\* is not full) leaves the slot table as it is and changes only the value of
\* the matched entry: keys, stored hashes, other values, the order and len()
\* stay.
C24_UpdateFrame ==
  \A k \in Keys, v \in Vals :
    (HasKey(buckets, k) /\ len(buckets) < capacity) =>
      LET r == insert_of(k, v)
          e == find_of(k).b_idx + 1
      IN
      /\ r.status = "ok"
      /\ r.ret = <<"Ok", Some(buckets[e].value)>>
      /\ r.hash_table = hash_table
      /\ len(r.buckets) = len(buckets)
      /\ \A i \in 1..len(buckets) :
           /\ r.buckets[i].key = buckets[i].key
           /\ r.buckets[i].hash = buckets[i].hash
           /\ r.buckets[i].value = IF i = e THEN v ELSE buckets[i].value

\* an update was made in a map that holds another key with the same
\* truncated hash and a different value, and an empty slot with a stale index
C24_Witness ==
  /\ last.op = "insert" /\ last.ret = "OkSome"
  /\ \E kk \in SameHashPairs :
       /\ HasKey(buckets, kk[1]) /\ HasKey(buckets, kk[2])
       /\ std_hashmap[kk[1]] # std_hashmap[kk[2]]
  /\ \E p \in DOMAIN hash_table :
       is_empty(hash_table[p]) /\ hash_table[p].b_idx # 0

----------------------------------------------------------------------------
(* HashValue::new over the 32 bit hashes.  A u32 is a pair of 16 bit      *)
(* halves <<high, low>>, as in as_u32.                                    *)

\* how far the sampled halves go beyond 0, 0x7fff/0x8000 and 0xffff
HashSampleWidth == 2

HalfSamples ==
  (0..HashSampleWidth)
    \cup ((32767 - HashSampleWidth)..(32768 + HashSampleWidth))
    \cup ((65535 - HashSampleWidth)..65535)

\* the u32 hashes h.finish32() can return, sampled
HashInputs == HalfSamples \X HalfSamples

\* operator & on u32
u32_and(a, b) == <<BitAnd(a[1], b[1]), BitAnd(a[2], b[2])>>

\* mutant: the hash is cut to 16 bits, the top bit is not masked
HashValue_new_16(h) == h[2]

\* HashValue::new, standard configuration (map.rs:74-76):
\* (hash & 0x7fff) as u16
HashValue_new_u32(h) == u32_and(h, <<0, 32767>>)[2]

\* HashValue::new and HASH_VALUE_IS_EMPTY with feature "hugesize"
\* (map.rs:14-25): hash & 0x7fffffff, and 0x80000000
hugesize_HashValue_new(h) == u32_and(h, <<32767, 65535>>)
hugesize_HASH_VALUE_IS_EMPTY == <<32768, 0>>

HashLast(op, h, slot) ==
  [op |-> op, ret |-> "None", status |-> "ok", h |-> h, slot |-> slot]

\* a key whose 32 bit hash is h is about to be hashed
InitHash ==
  /\ buckets = <<>>
  /\ hash_table = Map_new.hash_table
  /\ \E h \in HashInputs : last = HashLast("key", h, 0)
  /\ std_hashmap = StdEmpty
  /\ first_inserted = <<>>

\* the slot write of insert, case 1 (map.rs:176-186), for the key with hash
\* h in a map with len() == b_idx
HashWrite ==
  /\ last.op \in {"key", "clear"}
  /\ \E b_idx \in 0..(capacity - 1) :
       LET hash == HashValue_new_u32(last.h)
           h_idx == desired_h_idx(hash, mask)
       IN
       /\ hash_table' = [hash_table EXCEPT ![h_idx] = HashIndex_new(hash, b_idx)]
       /\ last' = HashLast("write", last.h, h_idx)
  /\ UNCHANGED <<buckets, std_hashmap, first_inserted>>

\* HashIndex::clear of the slot written last (map.rs:275)
HashClear ==
  /\ last.op = "write"
  /\ hash_table' = [hash_table EXCEPT ![last.slot] = HashIndex_clear(@)]
  /\ last' = HashLast("clear", last.h, last.slot)
  /\ UNCHANGED <<buckets, std_hashmap, first_inserted>>

NextHash == HashWrite \/ HashClear

SpecHash == InitHash /\ [][NextHash]_vars

\* C25: for every 32 bit hash the truncated hash differs from the sentinel,
\* in the standard and in the extended configuration; a slot written with
\* it is not read as empty, a cleared slot is, and a slot is empty exactly
\* when its hash is the sentinel.
C25_SentinelUnreachable ==
  /\ HashValue_new_u32(last.h) # HASH_VALUE_IS_EMPTY
  /\ HashValue_new_u32(last.h) \in 0..32767
  /\ last.h[1] < 32768 =>
       /\ HashValue_new(last.h[1] * 65536 + last.h[2]) = HashValue_new_u32(last.h)
       /\ HashValue_new(last.h[1] * 65536 + last.h[2]) # HASH_VALUE_IS_EMPTY
  /\ HashValue_new(last.h[2]) # HASH_VALUE_IS_EMPTY
  /\ hugesize_HashValue_new(last.h) # hugesize_HASH_VALUE_IS_EMPTY
  /\ hugesize_HashValue_new(last.h)[1] < 32768
  /\ last.op = "write" => ~is_empty(hash_table[last.slot])
  /\ last.op = "clear" => is_empty(hash_table[last.slot])
  /\ \A p \in DOMAIN hash_table :
       is_empty(hash_table[p]) <=> hash_table[p].hash = HASH_VALUE_IS_EMPTY

\* a slot was written for a key whose 32 bit hash is 0x80008000: its low
\* half is the sentinel pattern and its top bit is set
C25_Witness ==
  /\ last.op = "write"
  /\ last.h = <<32768, 32768>>
  /\ hash_table[last.slot].hash = 0
  /\ hash_table[last.slot].b_idx = capacity - 1

\* C26: 0 <= len() <= capacity in every reachable state, and an insert
\* appends to the entry store (push_unchecked, in case 1 and at the end of
\* the steal loop) only when len() < capacity; every insert returns.
C26_LenWithinCapacity ==
  /\ len(buckets) \in 0..capacity
  /\ \A k \in Keys, v \in Vals :
       LET r == insert_of(k, v) IN
       /\ r.status = "ok"
       /\ len(r.buckets) \in {len(buckets), len(buckets) + 1}
       /\ len(r.buckets) = len(buckets) + 1 =>
            /\ len(buckets) < capacity
            /\ r.ret = <<"Ok", None>>
            /\ r.buckets = Append(buckets, [key |-> k, value |-> v,
                                            hash |-> hash_with(k)])
       /\ len(buckets) = capacity => r.buckets = buckets

\* the map was filled by an insert that stole a slot: the append at the end
\* of the steal loop was made at len() == capacity - 1
C26_Witness ==
  /\ last.op = "insert" /\ last.ret = "OkNone"
  /\ len(buckets) = capacity
  /\ LET k == buckets[capacity].key
         pre == remove_of(k)
         r == insert(pre.buckets, pre.hash_table, k, buckets[capacity].value,
                     "panic")
     IN r.buckets = buckets /\ r.hash_table = hash_table /\ r.shift > 0

\* C27: in a state with len() < capacity, the insert of an absent key
\* followed at once by its remove restores the entries in their order and
\* the occupied slots with their hashes and entry indices; every other slot
\* is empty as before.
C27_InsertRemoveRoundTrip ==
  len(buckets) < capacity =>
    \A k \in Keys, v \in Vals :
      ~HasKey(buckets, k) =>
        LET i == insert_of(k, v)
            rm == remove(i.buckets, i.hash_table, k, "panic")
        IN
        /\ i.status = "ok" /\ i.ret = <<"Ok", None>>
        /\ rm.status = "ok" /\ rm.ret = Some(v)
        /\ rm.buckets = buckets
        /\ iter(rm.buckets) = iter(buckets)
        /\ Occupied(rm.hash_table) = Occupied(hash_table)
        /\ \A p \in Occupied(hash_table) : rm.hash_table[p] = hash_table[p]

\* a remove has left a map in which the insert of an absent key steals a
\* slot and moves two entries, and its remove shifts them back
C27_Witness ==
  /\ last.op = "remove" /\ last.ret = "Some"
  /\ len(buckets) < capacity
  /\ \E k \in Keys :
       LET i == insert_of(k, NumVals) IN
       /\ ~HasKey(buckets, k)
       /\ i.shift >= 3
       /\ remove(i.buckets, i.hash_table, k, "panic").bshift >= 3

----------------------------------------------------------------------------
(* Probe distances modulo capacity *)

\* truncated hashes with every ideal slot, from both ends of the 15 bit range
DistanceHashes ==
  (0..(2 * capacity - 1)) \cup {32767 - j : j \in 0..mask}

\* C28: h_idx_distance is (p - i) mod capacity for every position p and ideal
\* slot i, and in every iteration of insert's loop the running counter
\* h_idx_dist is that distance of the incoming hash at the current slot; with
\* len() < capacity the counter stays below capacity.
C28_DistanceMod ==
  /\ \A hv \in DistanceHashes, p \in 0..(capacity - 1) :
       LET i == desired_h_idx(hv, mask) IN
       /\ i = hv % capacity
       /\ h_idx_distance(hv, mask, p) = (p - i) % capacity
       /\ h_idx_distance(hv, mask, p)
            = IF p < i THEN p - i + capacity ELSE p - i
  /\ len(buckets) < capacity =>
       \A k \in Keys, v \in Vals :
         LET r == insert_of(k, v) IN
         /\ r.status = "ok"
         /\ r.probe \in 1..capacity
         /\ \A h_idx_dist \in 0..(r.probe - 1) :
              h_idx_dist = h_idx_distance(hash_with(k), mask,
                                          SlotAt(k, h_idx_dist))

\* after an insert, a further insert goes around the end of the table and
\* reaches its slot in the third iteration, below its ideal slot
C28_Witness ==
  /\ last.op = "insert" /\ last.ret = "OkNone"
  /\ len(buckets) < capacity
  /\ \E k \in Keys :
       /\ insert_of(k, NumVals).probe >= 3
       /\ SlotAt(k, 2) < desired_h_idx(hash_with(k), mask)

====
